---- MODULE Spec2Model ----
(***************************************************************************)
(* Model of scripts/visualize_tree.py of mini-db-engine: the binary page   *)
(* decoder (read_column, read_composite_key, read_record, PageHeader,      *)
(* MetaPage, InternalPage, LeafPage, read_page), the file scanner          *)
(* (build_tree_structure) and the two renderers' tree walks                *)
(* (visualize_tree.calculate_layout, visualize_tree_text.print_node),      *)
(* driven by main.                                                         *)
(*                                                                         *)
(* Representation of Python values                                         *)
(*   bytes   a view [src, base, len] onto a byte store; the store is a     *)
(*           file [slots, tail]: full 4096-byte slots, each written as a   *)
(*           prefix and the byte that fills the rest of the slot, and a    *)
(*           tail of fewer than 4096 bytes.  A plain buffer is a store     *)
(*           with no slots.  All offsets are 0-based as in the source.     *)
(*   '>B' '>H'   a number.                                                 *)
(*   '>I' '>Q'   [hi, lo]: lo is the value of the three low bytes, hi the  *)
(*           tuple of the higher bytes (the numbers do not fit the model   *)
(*           checker's integers; the pair is one-to-one with the value).   *)
(*   '>q' '>d'   the 8 bytes (one-to-one with the value).                  *)
(*   str     the bytes of its UTF-8 encoding (one-to-one for valid UTF-8). *)
(*   an exception is a result whose st names the exception class.          *)
(***************************************************************************)
EXTENDS Integers, Sequences, FiniteSets, TLC

VARIABLES
    file,            \* the bytes of the database file given to main
    pc,              \* position of main
    pages,           \* build_tree_structure: pages
    root_id,         \* build_tree_structure: root_id
    page_id,         \* build_tree_structure: loop variable
    renderer,        \* the renderer visualize_tree runs: "image" or "text"
    stack,           \* frames of calculate_layout / print_node
    visited,         \* node ids whose call got past the guard, in order
    node_positions,  \* visualize_tree: node_positions (level of each node)
    output,          \* what the renderer wrote
    exc,             \* exception propagating to main, or None
    exit_status,     \* <<s>> once main has exited with status s
    buf,             \* decoder harness: the buffer
    off,             \* decoder harness: the offset
    res              \* decoder harness: the result of the call

vars == <<file, pc, pages, root_id, page_id, renderer, stack, visited,
          node_positions, output, exc, exit_status, buf, off, res>>

pipeVars == <<file, pc, pages, root_id, page_id, renderer, stack, visited,
              node_positions, output, exc, exit_status>>

harnessVars == <<buf, off, res>>

None == "None"

\* the value None where a page, an identifier or a status is expected
NoPage == [class |-> "NoneType"]
NoId == [none |-> TRUE]

\* ---------------------------------------------------------------- constants

PAGE_HEADER_SIZE == 56
DEFAULT_PAGE_SIZE == 4096
payload_offset == 49

PAGE_TYPE_META == 0
PAGE_TYPE_INTERNAL == 1
PAGE_TYPE_LEAF == 2

COLUMN_TYPE_INT == 0
COLUMN_TYPE_STRING == 1
COLUMN_TYPE_FLOAT == 2
COLUMN_TYPE_BOOL == 3

\* -------------------------------------------------------------------- bytes

Min(a, b) == IF a < b THEN a ELSE b
Max(a, b) == IF a > b THEN a ELSE b

FileSize(f) == DEFAULT_PAGE_SIZE * Len(f.slots) + Len(f.tail)

SlotByte(slot, o) == IF o < Len(slot.pre) THEN slot.pre[o + 1] ELSE slot.pad

FileByte(f, pos) ==
    LET s == pos \div DEFAULT_PAGE_SIZE
    IN  IF s < Len(f.slots)
        THEN SlotByte(f.slots[s + 1], pos % DEFAULT_PAGE_SIZE)
        ELSE f.tail[pos - DEFAULT_PAGE_SIZE * Len(f.slots) + 1]

\* len(data), data[i]
BLen(data) == data.len
At(data, i) == FileByte(data.src, data.base + i)

\* data[a:b] for 0 <= a <= b: Python clamps both ends to len(data)
Slice(data, a, b) ==
    LET lo == Min(a, data.len)
        hi == Min(b, data.len)
    IN  [src |-> data.src, base |-> data.base + lo, len |-> hi - lo]

AsBytes(data) == [i \in 1..data.len |-> At(data, i - 1)]

\* a buffer held in memory on its own
Buffer(bs) == [src |-> [slots |-> <<>>, tail |-> bs], base |-> 0, len |-> Len(bs)]

\* ------------------------------------------------------------ struct.unpack

StructError == [st |-> "struct.error"]

Num3(bs) ==
    LET n == Len(bs)
        b(i) == IF i >= 1 THEN bs[i] ELSE 0
    IN  b(n - 2) * 65536 + b(n - 1) * 256 + b(n)

\* struct.unpack('>B' | '>H', s)[0]: s must hold exactly size bytes
unpack_small(size, s) ==
    IF BLen(s) # size THEN StructError
    ELSE [st |-> "ok", v |-> Num3(AsBytes(s))]

\* struct.unpack('>I' | '>Q', s)[0]
unpack_wide(size, s) ==
    IF BLen(s) # size THEN StructError
    ELSE LET bs == AsBytes(s)
         IN  [st |-> "ok",
              v |-> [hi |-> SubSeq(bs, 1, size - 3), lo |-> Num3(bs)]]

\* struct.unpack('>q' | '>d', s)[0]
unpack_raw(size, s) ==
    IF BLen(s) # size THEN StructError
    ELSE [st |-> "ok", v |-> AsBytes(s)]

IsSmall(v) == \A i \in DOMAIN v.hi : v.hi[i] = 0

\* the comparison with >= for >
AddExceeds_Strict(a, v, n) == ~IsSmall(v) \/ a + v.lo >= n

\* a + v > n for an offset a and a buffer length n, both below 2^24
AddExceeds(a, v, n) == ~IsSmall(v) \/ a + v.lo > n

IsZero(v) == IsSmall(v) /\ v.lo = 0

\* ------------------------------------------------------------ bytes.decode

IsCont(b) == b >= 128 /\ b <= 191

\* number of bytes of the character a lead byte starts, 0 for a byte that
\* starts none
LeadLen(b) ==
    IF b < 128 THEN 1
    ELSE IF b >= 194 /\ b <= 223 THEN 2
    ELSE IF b >= 224 /\ b <= 239 THEN 3
    ELSE IF b >= 240 /\ b <= 244 THEN 4
    ELSE 0

\* the byte after a lead byte is further restricted for four lead bytes
SecondOk(lead, b) ==
    IF lead = 224 THEN b >= 160 /\ b <= 191
    ELSE IF lead = 237 THEN b >= 128 /\ b <= 159
    ELSE IF lead = 240 THEN b >= 144 /\ b <= 191
    ELSE IF lead = 244 THEN b >= 128 /\ b <= 143
    ELSE IsCont(b)

\* bs.decode('utf-8') succeeds, for the bytes bs of a slice: every byte
\* from 128 up is part of one well-formed character (a byte below 128 is a
\* character by itself)
utf8_valid(bs) ==
    LET n == Len(bs)
        c(i) == bs[i + 1]
    IN  \A i \in { k \in 0..(n - 1) : bs[k + 1] >= 128 } :
            IF IsCont(c(i))
            THEN \E d \in 1..3 :
                    /\ i - d >= 0
                    /\ LeadLen(c(i - d)) > d
                    /\ \A j \in (i - d + 1)..(i - 1) : IsCont(c(j))
            ELSE /\ LeadLen(c(i)) > 0
                 /\ i + LeadLen(c(i)) - 1 <= n - 1
                 /\ \A j \in (i + 1)..(i + LeadLen(c(i)) - 1) : IsCont(c(j))
                 /\ SecondOk(c(i), c(i + 1))

\* ------------------------------------------------------------------ decoders

ValueError == [st |-> "ValueError"]
UnicodeDecodeError == [st |-> "UnicodeDecodeError"]

Ok(r) == r.st = "ok"

\* An operator named with_x(x, ...) is the part of the function above it
\* that runs once x has been computed.

Column(col_type, value) == [type |-> col_type, value |-> value]

\* lines 102-105 and 116-119: the 8 bytes of an int or a float
with_value8(col_type, u, offset) ==
    IF ~Ok(u) THEN u
    ELSE [st |-> "ok", col |-> Column(col_type, u.v), off |-> offset + 8]

\* lines 113-114: the text of a string
with_text(col_type, bs, offset) ==
    IF ~utf8_valid(bs) THEN UnicodeDecodeError
    ELSE [st |-> "ok", col |-> Column(col_type, bs), off |-> offset + Len(bs)]

\* lines 110-114: a string, once its length is unpacked
with_length(col_type, data, l, offset) ==
    IF ~Ok(l) THEN l
    ELSE IF AddExceeds(offset, l.v, BLen(data)) THEN ValueError
    ELSE with_text(col_type, AsBytes(Slice(data, offset, offset + l.v.lo)), offset)

\* lines 123-124: the byte of a bool
with_flag(col_type, u, offset) ==
    IF ~Ok(u) THEN u
    ELSE [st |-> "ok", col |-> Column(col_type, u.v = 1), off |-> offset + 1]

\* lines 99-128: a column, once its type is unpacked
with_col_type(data, t, offset) ==
    IF ~Ok(t) THEN t
    ELSE IF t.v = COLUMN_TYPE_INT THEN
        IF offset + 8 > BLen(data) THEN ValueError
        ELSE with_value8(t.v, unpack_raw(8, Slice(data, offset, offset + 8)), offset)
    ELSE IF t.v = COLUMN_TYPE_STRING THEN
        IF offset + 4 > BLen(data) THEN ValueError
        ELSE with_length(t.v, data, unpack_wide(4, Slice(data, offset, offset + 4)),
                         offset + 4)
    ELSE IF t.v = COLUMN_TYPE_FLOAT THEN
        IF offset + 8 > BLen(data) THEN ValueError
        ELSE with_value8(t.v, unpack_raw(8, Slice(data, offset, offset + 8)), offset)
    ELSE IF t.v = COLUMN_TYPE_BOOL THEN
        IF offset + 1 > BLen(data) THEN ValueError
        ELSE with_flag(t.v, unpack_small(1, Slice(data, offset, offset + 1)), offset)
    ELSE ValueError

\* read_column(data, offset): (Column, new_offset), or the exception raised
read_column(data, offset) ==
    IF offset + 1 > BLen(data) THEN ValueError
    ELSE with_col_type(data, unpack_small(1, Slice(data, offset, offset + 1)),
                       offset + 1)

RECURSIVE read_columns(_, _, _, _, _)

\* the loop stopping at the first value that fails and keeping the rest
with_col_Partial(data, c, offset, n, done, acc) ==
    IF ~Ok(c) THEN [st |-> "ok", cols |-> acc, off |-> offset]
    ELSE read_columns(data, c.off, n, done + 1, Append(acc, c.col))

\* lines 138-139: col, offset = read_column(data, offset); values.append(col)
with_col(data, c, offset, n, done, acc) ==
    IF ~Ok(c) THEN c
    ELSE read_columns(data, c.off, n, done + 1, Append(acc, c.col))

\* for _ in range(n): col, offset = read_column(data, offset); acc.append(col)
\* with n an unpacked '>I'.  A count of 2^24 or more is never reached: every
\* column takes a byte at least and no buffer of the program holds 2^24.
read_columns(data, offset, n, done, acc) ==
    IF IsSmall(n) /\ done = n.lo THEN [st |-> "ok", cols |-> acc, off |-> offset]
    ELSE with_col(data, read_column(data, offset), offset, n, done, acc)

\* line 141: return CompositeKey(values), offset
with_values(r) ==
    IF ~Ok(r) THEN r
    ELSE [st |-> "ok", key |-> [values |-> r.cols], off |-> r.off]

with_num_values(data, num_values, offset) ==
    IF ~Ok(num_values) THEN num_values
    ELSE with_values(read_columns(data, offset, num_values.v, 0, <<>>))

\* read_composite_key(data, offset): (CompositeKey, new_offset)
read_composite_key(data, offset) ==
    with_num_values(data, unpack_wide(4, Slice(data, offset, offset + 4)), offset + 4)

\* line 154: return Record(columns), offset
with_columns(r) ==
    IF ~Ok(r) THEN r
    ELSE [st |-> "ok", rec |-> [columns |-> r.cols], off |-> r.off]

with_num_columns(data, num_columns, offset) ==
    IF ~Ok(num_columns) THEN num_columns
    ELSE with_columns(read_columns(data, offset, num_columns.v, 0, <<>>))

\* read_record(data, offset): (Record, new_offset)
read_record(data, offset) ==
    with_num_columns(data, unpack_wide(4, Slice(data, offset, offset + 4)), offset + 4)

\* --------------------------------------------------------------------- pages

\* lines 74-90: the header, once its fields are unpacked
with_fields(f) ==
    IF \E n \in DOMAIN f : ~Ok(f[n]) THEN StructError
    ELSE [st |-> "ok", header |-> [n \in DOMAIN f |-> f[n].v]]

\* PageHeader.__init__(data)
PageHeader(data) ==
    with_fields([page_id     |-> unpack_wide(8, Slice(data, 0, 8)),
                 parent_page |-> unpack_wide(8, Slice(data, 8, 16)),
                 prev_page   |-> unpack_wide(8, Slice(data, 16, 24)),
                 next_page   |-> unpack_wide(8, Slice(data, 24, 32)),
                 page_type   |-> unpack_small(1, Slice(data, 32, 33)),
                 key_count   |-> unpack_small(2, Slice(data, 33, 35)),
                 free_space  |-> unpack_small(2, Slice(data, 35, 37)),
                 lsn         |-> unpack_wide(8, Slice(data, 41, 49))])

\* lines 162-168: the meta page, once its fields are unpacked
with_meta_fields(header, root_page, page_size, order, version, offset) ==
    IF ~Ok(root_page) THEN root_page
    ELSE IF ~Ok(page_size) THEN page_size
    ELSE IF ~Ok(order) THEN order
    ELSE IF ~Ok(version) THEN version
    ELSE [st |-> "ok",
          page |-> [class |-> "MetaPage", header |-> header,
                    root_page |-> root_page.v, page_size |-> page_size.v,
                    order |-> order.v, version |-> version.v],
          off |-> offset + 16]

\* MetaPage.__init__(header, data, offset)
MetaPage(header, data, offset) ==
    with_meta_fields(header,
                     unpack_wide(8, Slice(data, offset, offset + 8)),
                     unpack_wide(4, Slice(data, offset + 8, offset + 12)),
                     unpack_small(2, Slice(data, offset + 12, offset + 14)),
                     unpack_small(2, Slice(data, offset + 14, offset + 16)),
                     offset)

RECURSIVE read_keys(_, _, _, _)

with_key(data, k, n, acc) ==
    IF ~Ok(k) THEN k
    ELSE read_keys(data, k.off, n - 1, Append(acc, k.key))

\* for _ in range(n): key, offset = read_composite_key(data, offset)
read_keys(data, offset, n, acc) ==
    IF n = 0 THEN [st |-> "ok", keys |-> acc, off |-> offset]
    ELSE with_key(data, read_composite_key(data, offset), n, acc)

RECURSIVE read_children(_, _, _, _)

\* the loop ending at the first child whose 8 bytes are not all there
with_child_id_Short(data, c, offset, n, acc) ==
    IF ~Ok(c) THEN [st |-> "ok", children |-> acc, off |-> offset]
    ELSE read_children(data, offset + 8, n - 1, Append(acc, c.v))

with_child_id(data, c, offset, n, acc) ==
    IF ~Ok(c) THEN c
    ELSE read_children(data, offset + 8, n - 1, Append(acc, c.v))

\* for _ in range(n): child_id = struct.unpack('>Q', data[offset:offset+8])[0]
read_children(data, offset, n, acc) ==
    IF n = 0 THEN [st |-> "ok", children |-> acc, off |-> offset]
    ELSE with_child_id(data, unpack_wide(8, Slice(data, offset, offset + 8)),
                       offset, n, acc)

RECURSIVE read_values(_, _, _, _)

with_value(data, r, n, acc) ==
    IF ~Ok(r) THEN r
    ELSE read_values(data, r.off, n - 1, Append(acc, r.rec))

\* for _ in range(n): value, offset = read_record(data, offset)
read_values(data, offset, n, acc) ==
    IF n = 0 THEN [st |-> "ok", values |-> acc, off |-> offset]
    ELSE with_value(data, read_record(data, offset), n, acc)

with_children(header, ks, cs) ==
    IF ~Ok(cs) THEN cs
    ELSE [st |-> "ok",
          page |-> [class |-> "InternalPage", header |-> header,
                    keys |-> ks.keys, children |-> cs.children],
          off |-> cs.off]

with_internal_keys(header, data, ks) ==
    IF ~Ok(ks) THEN ks
    ELSE with_children(header, ks,
                       read_children(data, ks.off, header.key_count + 1, <<>>))

\* InternalPage.__init__(header, data, offset)
InternalPage(header, data, offset) ==
    with_internal_keys(header, data, read_keys(data, offset, header.key_count, <<>>))

with_leaf_values(header, ks, vs) ==
    IF ~Ok(vs) THEN vs
    ELSE [st |-> "ok",
          page |-> [class |-> "LeafPage", header |-> header,
                    keys |-> ks.keys, values |-> vs.values],
          off |-> vs.off]

with_leaf_keys(header, data, ks) ==
    IF ~Ok(ks) THEN ks
    ELSE with_leaf_values(header, ks,
                          read_values(data, ks.off, header.key_count, <<>>))

\* LeafPage.__init__(header, data, offset)
LeafPage(header, data, offset) ==
    with_leaf_keys(header, data, read_keys(data, offset, header.key_count, <<>>))

\* lines 227-234: the page of the header's type
with_header(h, data) ==
    IF ~Ok(h) THEN h
    ELSE IF h.header.page_type = PAGE_TYPE_META
         THEN MetaPage(h.header, data, payload_offset)
    ELSE IF h.header.page_type = PAGE_TYPE_INTERNAL
         THEN InternalPage(h.header, data, payload_offset)
    ELSE IF h.header.page_type = PAGE_TYPE_LEAF
         THEN LeafPage(h.header, data, payload_offset)
    ELSE [st |-> "ok", page |-> NoPage, off |-> payload_offset]

\* lines 218-221
with_header_data(header_data, data) ==
    IF BLen(header_data) < 49 THEN [st |-> "ok", page |-> NoPage, off |-> 0]
    ELSE with_header(PageHeader(header_data), data)

\* the body of read_page's try: the page, None, or the exception raised;
\* off is the offset after the last byte the decoding read
decode_page(data) == with_header_data(Slice(data, 0, 49), data)

\* the classes of an exception, itself and its bases
Bases(e) == IF e = "UnicodeDecodeError" THEN {e, "ValueError", "Exception"}
            ELSE {e, "Exception"}

\* the clause catching struct.error alone
Caught_StructOnly(e) == "struct.error" \in Bases(e)

\* except (struct.error, ValueError, IndexError)
Caught(e) == Bases(e) \cap {"struct.error", "ValueError", "IndexError"} # {}

\* file.seek(offset); file.read(n)
FileRead(f, offset, n) ==
    LET start == Min(offset, FileSize(f))
    IN  [src |-> f, base |-> start, len |-> Min(n, FileSize(f) - start)]

\* lines 215-237: what the try statement leaves
with_decoded(r) ==
    IF Ok(r) THEN [st |-> "ok", page |-> r.page]
    ELSE IF Caught(r.st) THEN [st |-> "ok", page |-> NoPage]
    ELSE r

with_data(data) ==
    IF BLen(data) < PAGE_HEADER_SIZE THEN [st |-> "ok", page |-> NoPage]
    ELSE with_decoded(decode_page(data))

\* the offset of the slot after the one asked for
read_page_NextSlot(f, pid, page_size) == with_data(FileRead(f, pid * page_size, page_size))

\* read_page(file, page_id, page_size): the page or None, or the exception
\* that leaves read_page
read_page(f, pid, page_size) == with_data(FileRead(f, (pid - 1) * page_size, page_size))

isinstance(page, class) == page.class = class

\* ---------------------------------------------------------- decoder harness
\* Buffers and offsets the three value decoders are called with: a count
\* followed by encoded columns, cut at any length, read from any offset.

MaxCols == 2

be32(n) == <<0, 0, 0, n>>

ColumnEncodings ==
    { <<COLUMN_TYPE_INT, 255, 255, 255, 255, 255, 255, 255, 246>>,
      <<COLUMN_TYPE_STRING>> \o be32(0),
      <<COLUMN_TYPE_STRING>> \o be32(2) \o <<195, 169>>,
      <<COLUMN_TYPE_STRING>> \o be32(1) \o <<195>>,
      <<COLUMN_TYPE_STRING, 1, 0, 0, 0>>,
      <<COLUMN_TYPE_FLOAT, 63, 240, 0, 0, 0, 0, 0, 0>>,
      <<COLUMN_TYPE_BOOL, 1>>,
      <<COLUMN_TYPE_BOOL, 2>>,
      <<4>> }

RECURSIVE Concat(_)
Concat(ss) == IF ss = <<>> THEN <<>> ELSE Head(ss) \o Concat(Tail(ss))

ColumnSeqs == UNION { [1..k -> ColumnEncodings] : k \in 0..MaxCols }

HarnessBuffers ==
    { SubSeq(be32(n) \o Concat(cs), 1, k) :
        <<n, cs, k>> \in { t \in (0..MaxCols) \X ColumnSeqs \X (0..(4 + 9 * MaxCols)) :
                            t[3] <= 4 + Len(Concat(t[2])) } }

Idle == [fn |-> None]

HarnessInit ==
    /\ buf \in HarnessBuffers
    /\ off \in 0..(4 + 9 * MaxCols + 1)
    /\ off <= Len(buf) + 1
    /\ res = Idle

CallReadColumn ==
    /\ res = Idle
    /\ res' = [fn |-> "read_column", r |-> read_column(Buffer(buf), off)]
    /\ UNCHANGED <<buf, off>>

CallReadCompositeKey ==
    /\ res = Idle
    /\ res' = [fn |-> "read_composite_key", r |-> read_composite_key(Buffer(buf), off)]
    /\ UNCHANGED <<buf, off>>

CallReadRecord ==
    /\ res = Idle
    /\ res' = [fn |-> "read_record", r |-> read_record(Buffer(buf), off)]
    /\ UNCHANGED <<buf, off>>

PipeIdle ==
    /\ file = [slots |-> <<>>, tail |-> <<>>]
    /\ pc = "idle"
    /\ pages = <<>>
    /\ root_id = NoId
    /\ page_id = 0
    /\ renderer = None
    /\ stack = <<>>
    /\ visited = <<>>
    /\ node_positions = <<>>
    /\ output = <<>>
    /\ exc = None
    /\ exit_status = <<>>

DecoderInit == HarnessInit /\ PipeIdle

DecoderNext ==
    \/ CallReadColumn /\ UNCHANGED pipeVars
    \/ CallReadCompositeKey /\ UNCHANGED pipeVars
    \/ CallReadRecord /\ UNCHANGED pipeVars

DecoderSpec == DecoderInit /\ [][DecoderNext]_vars

\* ------------------------------------------------------------- C7, C8
\* What the harness buffer holds at the offset, read off the raw bytes.

RawAt(i) == buf[i + 1]
Remaining == Len(buf) - off - 1
RawTag == RawAt(off)

\* the declared length of a Text payload is at least 2^24
RawLenHuge == RawAt(off + 1) # 0
RawLen == RawAt(off + 2) * 65536 + RawAt(off + 3) * 256 + RawAt(off + 4)

RawShort ==
    IF RawTag \in {COLUMN_TYPE_INT, COLUMN_TYPE_FLOAT} THEN Remaining < 8
    ELSE IF RawTag = COLUMN_TYPE_BOOL THEN Remaining < 1
    ELSE Remaining < 4 \/ RawLenHuge \/ Remaining < 4 + RawLen

RawPayloadSize ==
    IF RawTag \in {COLUMN_TYPE_INT, COLUMN_TYPE_FLOAT} THEN 8
    ELSE IF RawTag = COLUMN_TYPE_BOOL THEN 1
    ELSE 4 + RawLen

RECURSIVE Utf8Scan(_, _)
Utf8Scan(bs, i) ==
    IF i > Len(bs) THEN TRUE
    ELSE LET b == bs[i]
             cont(j) == j <= Len(bs) /\ bs[j] \in 128..191
             second(lo, hi) == i + 1 <= Len(bs) /\ bs[i + 1] \in lo..hi
         IN  IF b < 128 THEN Utf8Scan(bs, i + 1)
             ELSE IF b \in 194..223 THEN cont(i + 1) /\ Utf8Scan(bs, i + 2)
             ELSE IF b \in 224..239 THEN
                 /\ IF b = 224 THEN second(160, 191)
                    ELSE IF b = 237 THEN second(128, 159) ELSE second(128, 191)
                 /\ cont(i + 2)
                 /\ Utf8Scan(bs, i + 3)
             ELSE IF b \in 240..244 THEN
                 /\ IF b = 240 THEN second(144, 191)
                    ELSE IF b = 244 THEN second(128, 143) ELSE second(128, 191)
                 /\ cont(i + 2)
                 /\ cont(i + 3)
                 /\ Utf8Scan(bs, i + 4)
             ELSE FALSE

RawTextInvalid ==
    /\ RawTag = COLUMN_TYPE_STRING
    /\ ~Utf8Scan(SubSeq(buf, off + 6, off + 5 + RawLen), 1)

RawMustFail == off >= Len(buf) \/ RawTag \notin 0..3 \/ RawShort

ColumnCalled == res.fn = "read_column"

\* C7 as stated: read_column fails exactly when the tag is unknown or the
\* payload is short, and otherwise succeeds with the offset advanced by
\* 1 + payload size, within the buffer.
C7_AsStated ==
    ColumnCalled =>
        IF RawMustFail THEN ~Ok(res.r)
        ELSE /\ Ok(res.r)
             /\ res.r.off = off + 1 + RawPayloadSize
             /\ res.r.off <= Len(buf)

\* C7 (amended): read_column fails exactly when the tag byte is missing or
\* unknown, the payload is shorter than the tag demands, or a Text payload
\* is not valid UTF-8; otherwise it succeeds, the returned offset is the
\* input offset plus 1 + payload size, and it does not exceed len(data).
C7_ReadColumnContract ==
    ColumnCalled =>
        IF RawMustFail \/ RawTextInvalid THEN ~Ok(res.r)
        ELSE /\ Ok(res.r)
             /\ res.r.off = off + 1 + RawPayloadSize
             /\ res.r.off <= Len(buf)

\* a Text column that ends exactly at the end of the buffer was decoded from
\* an offset inside the buffer
C7_Witness ==
    /\ ColumnCalled
    /\ off > 0
    /\ Ok(res.r)
    /\ res.r.col.type = COLUMN_TYPE_STRING
    /\ Len(res.r.col.value) = 2
    /\ res.r.off = Len(buf)

SeqCalled == res.fn \in {"read_composite_key", "read_record"}
CountReadable == off + 4 <= Len(buf)
RawCountHuge == RawAt(off) # 0
RawCount == RawAt(off + 1) * 65536 + RawAt(off + 2) * 256 + RawAt(off + 3)
SeqOf(r) == IF res.fn = "read_composite_key" THEN r.key.values ELSE r.rec.columns

\* the first n values at o each decode, one after the other
RECURSIVE ValuesDecode(_, _)
ValuesDecode(o, n) ==
    IF n = 0 THEN [st |-> "ok", cols |-> <<>>, off |-> o]
    ELSE LET c == read_column(Buffer(buf), o)
         IN  IF ~Ok(c) THEN [st |-> "failed"]
             ELSE LET rest == ValuesDecode(c.off, n - 1)
                  IN  IF ~Ok(rest) THEN rest
                      ELSE [st |-> "ok", cols |-> <<c.col>> \o rest.cols,
                            off |-> rest.off]

\* C8: read_composite_key and read_record fail, returning nothing, when one
\* of the declared count values fails to decode; a count of 0 gives the empty
\* sequence and offset + 4; a success holds exactly count values, in buffer
\* order.
C8_FailFast ==
    (SeqCalled /\ CountReadable /\ ~RawCountHuge) =>
        LET e == ValuesDecode(off + 4, RawCount)
        IN  /\ Ok(res.r) <=> Ok(e)
            /\ ~Ok(res.r) => DOMAIN res.r = {"st"}
            /\ Ok(res.r) =>
                /\ Len(SeqOf(res.r)) = RawCount
                /\ SeqOf(res.r) = e.cols
                /\ res.r.off = e.off
            /\ RawCount = 0 =>
                /\ Ok(res.r)
                /\ SeqOf(res.r) = <<>>
                /\ res.r.off = off + 4

\* a key whose second value fails after the first decoded
C8_Witness ==
    /\ res.fn = "read_composite_key"
    /\ CountReadable /\ ~RawCountHuge
    /\ RawCount = 2
    /\ Ok(read_column(Buffer(buf), off + 4))
    /\ ~Ok(res.r)

\* a record of two values was returned
C8_WitnessSuccess ==
    /\ res.fn = "read_record"
    /\ Ok(res.r)
    /\ Len(res.r.rec.columns) = 2

\* ---------------------------------------------------------------- the files
\* The database files main is run on: up to MaxSlots full pages and a tail.
\* A page is written as its 49 header bytes and the start of its payload;
\* the byte pad fills the slot.

MaxSlots == 3
MaxDepth == 4

be64(n) == <<0, 0, 0, 0, 0, 0, 0, n>>
Zeros(n) == [i \in 1..n |-> 0]

HeaderBytes(id, type, key_count) ==
    be64(id) \o Zeros(24) \o <<type>> \o <<0, key_count>> \o Zeros(14)

MetaPayload(root) == be64(root) \o <<0, 0, 16, 0>> \o <<0, 4>> \o <<0, 1>>

IntColumn(n) == <<COLUMN_TYPE_INT, 0, 0, 0, 0, 0, 0, 0, n>>
TextColumn(bs) == <<COLUMN_TYPE_STRING>> \o be32(Len(bs)) \o bs
KeyOf(cols) == be32(Len(cols)) \o Concat(cols)

InternalPayload(a, b) == KeyOf(<<IntColumn(10)>>) \o be64(a) \o be64(b)

LeafPayload(text) ==
    KeyOf(<<TextColumn(text)>>) \o KeyOf(<<IntColumn(30), TextColumn(text)>>)

\* a key holding one Text of 4030 bytes, which leaves room for one child
LongKey == be32(1) \o <<COLUMN_TYPE_STRING, 0, 0, 15, 190>>

Template(type, key_count, payload, pad) ==
    [type |-> type, key_count |-> key_count, payload |-> payload, pad |-> pad]

FirstPages ==
    { Template(PAGE_TYPE_META, 0, MetaPayload(r), 0) : r \in 0..3 } \cup
    { Template(PAGE_TYPE_LEAF, 1, LeafPayload(<<97>>), 255),
      Template(3, 0, <<>>, 0) }

OtherPages ==
    { Template(PAGE_TYPE_META, 0, MetaPayload(3), 0),
      Template(PAGE_TYPE_INTERNAL, 1, InternalPayload(3, 0), 0),
      Template(PAGE_TYPE_INTERNAL, 1, InternalPayload(2, 4), 0),
      Template(PAGE_TYPE_INTERNAL, 1, LongKey, 0),
      Template(PAGE_TYPE_LEAF, 1, LeafPayload(<<97>>), 255),
      Template(PAGE_TYPE_LEAF, 1, LeafPayload(<<255>>), 0),
      Template(PAGE_TYPE_LEAF, 1, KeyOf(<<<<4>>>>), 0),
      Template(3, 0, <<>>, 0) }

PageBytes(id, t) == HeaderBytes(id, t.type, t.key_count) \o t.payload

SlotOf(id, t) == [pre |-> PageBytes(id, t), pad |-> t.pad]

\* what follows the last full page: nothing, or the start of one more page
Tails(n) ==
    IF n = 0
    THEN { <<>>, Zeros(10),
           PageBytes(1, Template(PAGE_TYPE_META, 0, MetaPayload(0), 0)),
           SubSeq(PageBytes(1, Template(PAGE_TYPE_META, 0, MetaPayload(2), 0)), 1, 60) }
    ELSE IF n = 1
    THEN { <<>>, PageBytes(2, Template(PAGE_TYPE_LEAF, 1, LeafPayload(<<97>>), 0)) }
    ELSE { <<>> }

Files ==
    UNION { { [slots |-> [i \in 1..n |-> SlotOf(i, ts[i])], tail |-> tl] :
                <<ts, tl>> \in { c \in [1..n -> FirstPages \cup OtherPages] : 
                                   /\ n >= 1 => c[1] \in FirstPages
                                   /\ \A i \in 2..n : c[i] \in OtherPages }
                               \X Tails(n) } :
            n \in 0..MaxSlots }

\* ----------------------------------------------------------------- pipeline

\* num_pages = file_size // DEFAULT_PAGE_SIZE
num_pages == FileSize(file) \div DEFAULT_PAGE_SIZE

InIndex(v) == IsSmall(v) /\ v.lo \in DOMAIN pages

\* pages.get(1)
pages_get(k) == IF k \in DOMAIN pages THEN pages[k] ELSE NoPage

Init ==
    /\ file \in Files
    /\ renderer = None
    /\ pc = "build"
    /\ pages = <<>>
    /\ root_id = NoId
    /\ page_id = 0
    /\ stack = <<>>
    /\ visited = <<>>
    /\ node_positions = <<>>
    /\ output = <<>>
    /\ exc = None
    /\ exit_status = <<>>
    /\ buf = <<>>
    /\ off = 0
    /\ res = Idle

\* an exception leaves the function running and reaches main's except
Raise(e) ==
    /\ exc' = e
    /\ pc' = "except"

\* lines 248-250: if meta and isinstance(meta, MetaPage)
with_meta(meta) ==
    IF ~Ok(meta)
    THEN Raise(meta.st) /\ UNCHANGED <<pages, root_id, page_id>>
    ELSE /\ IF isinstance(meta.page, "MetaPage")
            THEN /\ pages' = (1 :> meta.page)
                 /\ root_id' = meta.page.root_page
            ELSE UNCHANGED <<pages, root_id>>
         /\ page_id' = 2
         /\ pc' = "scan"
         /\ UNCHANGED exc

\* build_tree_structure, lines 242-255: the meta page and the page count
ReadMetaPage ==
    /\ pc = "build"
    /\ with_meta(read_page(file, 1, DEFAULT_PAGE_SIZE))
    /\ UNCHANGED <<file, renderer, stack, visited, node_positions, output,
                   exit_status>>

\* the loop taking the root from every meta page it meets
with_page_AnyMeta(page) ==
    IF ~Ok(page)
    THEN Raise(page.st) /\ UNCHANGED <<pages, page_id, root_id>>
    ELSE /\ IF page.page # NoPage
            THEN pages' = pages @@ (page_id :> page.page)
            ELSE UNCHANGED pages
         /\ root_id' = IF isinstance(page.page, "MetaPage")
                       THEN page.page.root_page ELSE root_id
         /\ page_id' = page_id + 1
         /\ UNCHANGED <<pc, exc>>

\* lines 259-260: if page: pages[page_id] = page
with_page(page) ==
    IF ~Ok(page)
    THEN Raise(page.st) /\ UNCHANGED <<pages, page_id, root_id>>
    ELSE /\ IF page.page # NoPage
            THEN pages' = pages @@ (page_id :> page.page)
            ELSE UNCHANGED pages
         /\ page_id' = page_id + 1
         /\ UNCHANGED <<pc, exc, root_id>>

\* build_tree_structure, lines 257-260: one round of the loop
ReadNextPage ==
    /\ pc = "scan"
    /\ page_id <= num_pages
    /\ with_page(read_page(file, page_id, DEFAULT_PAGE_SIZE))
    /\ UNCHANGED <<file, renderer, stack, visited, node_positions, output,
                   exit_status>>

\* build_tree_structure, line 262: return pages, root_id
ScanReturn ==
    /\ pc = "scan"
    /\ page_id > num_pages
    /\ pc' = "visualize"
    /\ UNCHANGED <<file, renderer, pages, root_id, page_id, stack, visited,
                   node_positions, output, exc, exit_status>>

\* --------------------------------------------------------------- renderers
\* visualize_tree runs the image renderer when HAS_MATPLOTLIB (set when the
\* script is loaded, read at line 267) and visualize_tree_text when not.
\* What a renderer writes is kept as a sequence of items.  The image
\* renderer's coordinates and sizes (node_levels, max_level, x_positions and
\* the x of every position) are not kept: node_positions holds the level a
\* node was placed at.

Top == stack[Len(stack)]
Pop == SubSeq(stack, 1, Len(stack) - 1)
SetTop(fr) == [stack EXCEPT ![Len(stack)] = fr]

\* visualize_tree_text, lines 449-453: the heading, written for a meta page
TextHeading ==
    LET meta == pages_get(1)
    IN  IF isinstance(meta, "MetaPage")
        THEN << [kind |-> "title", text |-> "B+Tree Visualization"],
                [kind |-> "meta", root |-> meta.root_page, order |-> meta.order,
                 pageSize |-> meta.page_size, version |-> meta.version] >>
        ELSE <<>>

\* root_id is None or root_id == 0
RootIsEmpty == IF root_id = NoId THEN TRUE ELSE IsZero(root_id)

\* visualize_tree, lines 279-287, and visualize_tree_text, lines 455-457:
\* the placeholder of an empty tree
VisualizeEmpty ==
    /\ pc = "visualize"
    /\ RootIsEmpty
    /\ \E HAS_MATPLOTLIB \in BOOLEAN :
          /\ renderer' = IF HAS_MATPLOTLIB THEN "image" ELSE "text"
          /\ output' = IF HAS_MATPLOTLIB
                       THEN << [kind |-> "placeholder", text |-> "Empty Tree"] >>
                       ELSE TextHeading \o
                            << [kind |-> "placeholder", text |-> "(Empty tree)"] >>
    /\ pc' = "rendered"
    /\ UNCHANGED <<file, pages, root_id, page_id, stack, visited,
                   node_positions, exc, exit_status>>

\* the frame of a call of calculate_layout(node_id, level) or
\* print_node(node_id, prefix, is_last, is_root); i counts the children done
Frame(image, node, level, prefix, is_last, is_root) ==
    IF image
    THEN [node |-> node, level |-> level, i |-> 0]
    ELSE [node |-> node, prefix |-> prefix, is_last |-> is_last,
          is_root |-> is_root, i |-> 0]

\* visualize_tree, line 341, and visualize_tree_text, line 480: the walk
\* starts at the root
VisualizeStart ==
    /\ pc = "visualize"
    /\ ~RootIsEmpty
    /\ \E HAS_MATPLOTLIB \in BOOLEAN :
          /\ renderer' = IF HAS_MATPLOTLIB THEN "image" ELSE "text"
          /\ output' = IF HAS_MATPLOTLIB THEN <<>> ELSE TextHeading
          /\ stack' = << Frame(HAS_MATPLOTLIB, root_id, 0, <<>>, TRUE, TRUE) >>
    /\ pc' = "walk"
    /\ UNCHANGED <<file, pages, root_id, page_id, visited,
                   node_positions, exc, exit_status>>

Entering == pc = "walk" /\ stack # <<>> /\ Top.i = 0

\* lines 308-309 and 460-461: if node_id == 0 or node_id not in pages: return
WalkSkip ==
    /\ Entering
    /\ (IsZero(Top.node) \/ ~InIndex(Top.node))
    /\ stack' = Pop
    /\ UNCHANGED <<file, renderer, pc, pages, root_id, page_id, visited,
                   node_positions, output, exc, exit_status>>

NodePage == pages[Top.node.lo]
Present == Entering /\ ~IsZero(Top.node) /\ InIndex(Top.node)

\* the connector of the last child is written here with ' for the backquote
connector(fr) == IF fr.is_last /\ ~fr.is_root THEN "'-- "
                 ELSE IF ~fr.is_root THEN "+-- " ELSE ""

next_prefix(fr) == Append(fr.prefix, IF fr.is_last THEN "    " ELSE "|   ")

\* lines 311-318 and 462-473: an Internal page, up to its first child
WalkInternal ==
    /\ Present
    /\ isinstance(NodePage, "InternalPage")
    /\ visited' = Append(visited, Top.node.lo)
    /\ output' = IF renderer = "image" THEN output
                 ELSE Append(output, [kind |-> "I", id |-> Top.node.lo,
                                      prefix |-> Top.prefix,
                                      connector |-> connector(Top),
                                      keys |-> NodePage.keys,
                                      children |-> NodePage.children])
    /\ stack' = SetTop([Top EXCEPT !.i = 1])
    /\ UNCHANGED <<file, renderer, pc, pages, root_id, page_id,
                   node_positions, exc, exit_status>>

\* lines 330-338 and 474-478: a Leaf page
WalkLeaf ==
    /\ Present
    /\ isinstance(NodePage, "LeafPage")
    /\ visited' = Append(visited, Top.node.lo)
    /\ IF renderer = "image"
       THEN /\ node_positions' = (Top.node.lo :> Top.level) @@ node_positions
            /\ UNCHANGED output
       ELSE /\ output' = Append(output, [kind |-> "L", id |-> Top.node.lo,
                                         prefix |-> Top.prefix,
                                         connector |-> connector(Top),
                                         keys |-> NodePage.keys,
                                         values |-> NodePage.values])
            /\ UNCHANGED node_positions
    /\ stack' = Pop
    /\ UNCHANGED <<file, renderer, pc, pages, root_id, page_id, exc,
                   exit_status>>

\* a page that is neither Internal nor Leaf: print_node writes nothing;
\* calculate_layout reaches line 338 with node_x never assigned
WalkOther ==
    /\ Present
    /\ ~isinstance(NodePage, "InternalPage")
    /\ ~isinstance(NodePage, "LeafPage")
    /\ visited' = Append(visited, Top.node.lo)
    /\ IF renderer = "image"
       THEN Raise("UnboundLocalError") /\ UNCHANGED stack
       ELSE stack' = Pop /\ UNCHANGED <<pc, exc>>
    /\ UNCHANGED <<file, renderer, pages, root_id, page_id, node_positions,
                   output, exit_status>>

InChildren ==
    /\ pc = "walk" /\ stack # <<>>
    /\ Top.i >= 1
    /\ Top.i <= Len(NodePage.children)

\* lines 317-318 and 471-473: the call for the next child
WalkDescend ==
    /\ InChildren
    /\ Len(stack) < MaxDepth
    /\ LET child == NodePage.children[Top.i]
           fr == IF renderer = "image"
                 THEN Frame(TRUE, child, Top.level + 1, <<>>, TRUE, FALSE)
                 ELSE Frame(FALSE, child, 0, next_prefix(Top),
                            Top.i = Len(NodePage.children), FALSE)
       IN  stack' = Append(SetTop([Top EXCEPT !.i = Top.i + 1]), fr)
    /\ UNCHANGED <<file, renderer, pc, pages, root_id, page_id, visited,
                   node_positions, output, exc, exit_status>>

\* the call for the next child when the interpreter's stack is used up
WalkOverflow ==
    /\ InChildren
    /\ Len(stack) >= MaxDepth
    /\ Raise("RecursionError")
    /\ UNCHANGED <<file, renderer, pages, root_id, page_id, stack, visited,
                   node_positions, output, exit_status>>

\* lines 321-338: the children are done; an Internal page is placed
WalkFinish ==
    /\ pc = "walk" /\ stack # <<>>
    /\ Top.i >= 1
    /\ Top.i > Len(NodePage.children)
    /\ node_positions' = IF renderer = "image"
                         THEN (Top.node.lo :> Top.level) @@ node_positions
                         ELSE node_positions
    /\ stack' = Pop
    /\ UNCHANGED <<file, renderer, pc, pages, root_id, page_id, visited,
                   output, exc, exit_status>>

\* visualize_tree, lines 381-439: the edges, the boxes and the title
Figure ==
    LET placed == DOMAIN node_positions
    IN  [kind |-> "figure",
         edges |-> { <<n, c.lo>> : <<n, c>> \in
                       { e \in placed \X UNION { { pages[m].children[k] :
                                                   k \in DOMAIN pages[m].children } :
                                                 m \in { q \in placed :
                                                         isinstance(pages[q], "InternalPage") } } :
                           /\ isinstance(pages[e[1]], "InternalPage")
                           /\ \E k \in DOMAIN pages[e[1]].children :
                                 pages[e[1]].children[k] = e[2]
                           /\ IsSmall(e[2]) /\ e[2].lo \in placed } },
         boxes |-> { [id |-> n, class |-> pages[n].class] :
                       n \in { q \in placed : pages[q].class \in {"InternalPage", "LeafPage"} } },
         title |-> IF isinstance(pages_get(1), "MetaPage")
                   THEN <<pages_get(1).root_page, pages_get(1).order,
                          pages_get(1).page_size>>
                   ELSE <<>>]

\* the outermost call has returned: the figure is saved, or the text file
\* closed
WalkReturn ==
    /\ pc = "walk"
    /\ stack = <<>>
    /\ output' = IF renderer = "image" THEN <<Figure>> ELSE output
    /\ pc' = "rendered"
    /\ UNCHANGED <<file, renderer, pages, root_id, page_id, stack, visited,
                   node_positions, exc, exit_status>>

\* main, lines 497-498: the confirmation, exit status 0
MainReturn ==
    /\ pc = "rendered"
    /\ exit_status' = <<0>>
    /\ pc' = "done"
    /\ UNCHANGED <<file, renderer, pages, root_id, page_id, stack, visited,
                   node_positions, output, exc>>

\* main, lines 499-503: except Exception: sys.exit(1)
MainExcept ==
    /\ pc = "except"
    /\ exit_status' = <<1>>
    /\ pc' = "done"
    /\ UNCHANGED <<file, renderer, pages, root_id, page_id, stack, visited,
                   node_positions, output, exc>>

Next ==
    \/ ReadMetaPage /\ UNCHANGED harnessVars
    \/ ReadNextPage /\ UNCHANGED harnessVars
    \/ ScanReturn /\ UNCHANGED harnessVars
    \/ VisualizeEmpty /\ UNCHANGED harnessVars
    \/ VisualizeStart /\ UNCHANGED harnessVars
    \/ WalkSkip /\ UNCHANGED harnessVars
    \/ WalkInternal /\ UNCHANGED harnessVars
    \/ WalkLeaf /\ UNCHANGED harnessVars
    \/ WalkOther /\ UNCHANGED harnessVars
    \/ WalkDescend /\ UNCHANGED harnessVars
    \/ WalkOverflow /\ UNCHANGED harnessVars
    \/ WalkFinish /\ UNCHANGED harnessVars
    \/ WalkReturn /\ UNCHANGED harnessVars
    \/ MainReturn /\ UNCHANGED harnessVars
    \/ MainExcept /\ UNCHANGED harnessVars

Spec == Init /\ [][Next]_vars

\* -------------------------------------------------------------- C1 .. C6
\* The file's slots, read off the file itself.

SlotData(n) == FileRead(file, (n - 1) * DEFAULT_PAGE_SIZE, DEFAULT_PAGE_SIZE)
SlotByteAt(n, o) == FileByte(file, (n - 1) * DEFAULT_PAGE_SIZE + o)

\* decoding a slot's bytes gives no page
Failed(d) == IF Ok(d) THEN d.page = NoPage ELSE TRUE

\* build_tree_structure has just returned
Scanned == pc = "visualize"

DecodeErrors == {"struct.error", "ValueError", "UnicodeDecodeError", "IndexError"}

SlotOutcomeOk(n, d) ==
    IF Failed(d) THEN n \notin DOMAIN pages
    ELSE n \in DOMAIN pages /\ pages[n] = d.page

\* C1: a slot n in 2..N whose decoding fails, whatever the reason, does not
\* make build_tree_structure raise and is absent from the index; every other
\* slot in 2..N that decodes is in the index with its page.
C1_CorruptSlotOmitted ==
    /\ exc \notin DecodeErrors
    /\ Scanned => \A n \in 2..num_pages : SlotOutcomeOk(n, decode_page(SlotData(n)))

\* slot 2 holds text that is not UTF-8 and slot 3 a page that decodes
C1_Witness ==
    /\ Scanned
    /\ num_pages >= 3
    /\ 2 \notin DOMAIN pages
    /\ 3 \in DOMAIN pages
    /\ decode_page(SlotData(2)).st = "UnicodeDecodeError"

\* C2: the index holds exactly the slots of 1..N that decode, so its size
\* plus the number of slots that fail to decode is N.
C2_CountsAddUp ==
    Scanned =>
        LET bad == { n \in 1..num_pages : Failed(decode_page(SlotData(n))) }
        IN  /\ Cardinality(DOMAIN pages) + Cardinality(bad) = num_pages
            /\ DOMAIN pages = (1..num_pages) \ bad

\* Slot 1 as the file holds it: a Meta page needs the type byte 0 and the
\* 16 bytes of its fields after the 49 of the header.
Slot1IsMeta == FileSize(file) >= payload_offset + 16 /\ FileByte(file, 32) = PAGE_TYPE_META

Slot1Root ==
    [hi |-> [i \in 1..5 |-> FileByte(file, payload_offset + i - 1)],
     lo |-> FileByte(file, payload_offset + 5) * 65536
            + FileByte(file, payload_offset + 6) * 256
            + FileByte(file, payload_offset + 7)]

\* C3: the root identifier is the root-page field of slot 1 when slot 1 is a
\* Meta page and None otherwise, whatever Meta pages the other slots hold.
C3_RootFromSlotOne ==
    pc # "build" => root_id = IF Slot1IsMeta THEN Slot1Root ELSE NoId

\* the scan met a Meta page in another slot, naming another root
C3_Witness ==
    /\ Scanned
    /\ root_id # NoId
    /\ \E n \in DOMAIN pages :
          /\ n > 1
          /\ isinstance(pages[n], "MetaPage")
          /\ pages[n].root_page # root_id

\* what main shows: the placeholder written and the exit status
Placeholders == { output[i].text : i \in { k \in DOMAIN output : output[k].kind = "placeholder" } }

\* what main shows for a file whose meta page reports rootPage = 0
EmptyTreeShown ==
    /\ exit_status = <<0>>
    /\ Placeholders = IF renderer = "image" THEN {"Empty Tree"} ELSE {"(Empty tree)"}

\* no meta page could be read: the file is empty or its slot 1 does not decode
Unreadable == 1 \notin DOMAIN pages

\* C4: an unreadable input does not give what an empty tree gives.
C4_UnreadableDistinguishable ==
    (pc = "done" /\ Unreadable) => ~EmptyTreeShown

KeyCountAt(n) == SlotByteAt(n, 33) * 256 + SlotByteAt(n, 34)

\* C5: an Internal page of the index has key_count keys and key_count + 1
\* children, a Leaf page key_count keys and key_count records, key_count
\* being the header's; a page whose bytes run out is not in the index.
C5_CountsMatchHeader ==
    \A n \in DOMAIN pages :
        /\ isinstance(pages[n], "InternalPage") =>
              /\ Len(pages[n].keys) = KeyCountAt(n)
              /\ Len(pages[n].children) = KeyCountAt(n) + 1
        /\ isinstance(pages[n], "LeafPage") =>
              /\ Len(pages[n].keys) = KeyCountAt(n)
              /\ Len(pages[n].values) = KeyCountAt(n)

\* an Internal page whose bytes ran out after its first child was left out,
\* beside an Internal page that was read whole
C5_Witness ==
    /\ Scanned
    /\ \E n \in DOMAIN pages :
          isinstance(pages[n], "InternalPage") /\ Len(pages[n].children) = 2
    /\ \E m \in 2..num_pages :
          /\ m \notin DOMAIN pages
          /\ SlotByteAt(m, 32) = PAGE_TYPE_INTERNAL
          /\ decode_page(SlotData(m)).st = "struct.error"

\* C6: the walk visits no page identifier twice and does not use up the
\* interpreter's stack.
C6_NoRevisit ==
    /\ \A i, j \in DOMAIN visited : i # j => visited[i] # visited[j]
    /\ exc # "RecursionError"

\* ------------------------------------------------------------- C9, C10

ZeroSlot == [pre |-> <<>>, pad |-> 0]

\* the file with every byte outside slot n set to 0
Isolate(f, n) ==
    [slots |-> [i \in DOMAIN f.slots |-> IF i = n THEN f.slots[i] ELSE ZeroSlot],
     tail |-> Zeros(Len(f.tail))]

\* the file with the bytes of slot n from offset o on replaced by b
Retail(f, n, o, b) ==
    [f EXCEPT !.slots[n] =
        [pre |-> AsBytes(FileRead(f, (n - 1) * DEFAULT_PAGE_SIZE, o)), pad |-> b]]

\* what the index holds for slot n
Outcome(n) == IF n \in DOMAIN pages THEN pages[n] ELSE NoPage

\* what the index is to hold for slot n, given what read_page returns
Indexed(n, r) == IF n = 1 /\ ~isinstance(r.page, "MetaPage") THEN NoPage ELSE r.page

TailIgnored(n, d) ==
    Ok(d) => \A b \in {0, 255} :
                Outcome(n) = Indexed(n, read_page(Retail(file, n, d.off, b), n,
                                                  DEFAULT_PAGE_SIZE))

\* C9: what the index holds for slot n is what it holds when every byte
\* outside slot n is 0, and, for a slot that decodes, when the bytes after
\* the last byte decoded are any other bytes.
C9_SlotsIndependent ==
    Scanned =>
        \A n \in 1..num_pages :
            /\ Outcome(n) = Indexed(n, read_page(Isolate(file, n), n, DEFAULT_PAGE_SIZE))
            /\ TailIgnored(n, decode_page(SlotData(n)))

\* slot 2 decodes to a page beside a slot 3 that is not all zero
C9_Witness ==
    /\ Scanned
    /\ num_pages >= 3
    /\ 2 \in DOMAIN pages
    /\ file.slots[3] # ZeroSlot
    /\ file.slots[2].pad = 255

\* the children of the Internal pages visited that the index does not hold
MissingChildren ==
    { c \in UNION { { pages[n].children[k] : k \in DOMAIN pages[n].children } :
                    n \in { visited[i] : i \in { k \in DOMAIN visited :
                                isinstance(pages[visited[k]], "InternalPage") } } } :
        ~IsZero(c) /\ ~InIndex(c) }

Reported(c) ==
    \E i \in DOMAIN output : output[i].kind = "finding" /\ output[i].child = c

\* C10: a walk that ran to its end reports every child identifier absent
\* from the index that an Internal page it visited refers to.
C10_MissingChildReported ==
    (pc = "done" /\ exit_status = <<0>>) => \A c \in MissingChildren : Reported(c)

\* ------------------------------------------------------------------ C11

\* the page has a position in the layout
Placed(n) == n \in DOMAIN node_positions

\* C11: calculate_layout raises nothing, and once the outermost call has
\* returned every page it visited has a position, whatever its kind.
C11_LayoutCompletes ==
    renderer = "image" =>
        /\ exc = None
        /\ pc \in {"rendered", "done"} =>
               \A i \in DOMAIN visited : Placed(visited[i])

====
